---- MODULE Spec2Model ----
(***************************************************************************)
(* AI Chemist (src/app.py): a Streamlit page.  Streamlit re-executes the   *)
(* whole script, top to bottom, on every widget interaction; the widget    *)
(* values live in the browser session between runs, everything else is a  *)
(* script global that is rebuilt by each run.  One action of this model is *)
(* one interaction followed by the complete run of the script it triggers. *)
(*                                                                         *)
(* Strings are sequences of characters/tokens; f-string interpolation and  *)
(* += are concatenation (\o).  Python's None is a distinguished value.     *)
(***************************************************************************)
EXTENDS Integers, Sequences, FiniteSets, TLC

\* ---------------------------------------------------------------- bounds
MaxLen == 1          \* longest text typed into the text area
MaxPages == 2        \* most pages in an uploaded PDF

Chars == {"u"}              \* characters typed into the text area

RECURSIVE SeqsUpTo(_, _)
SeqsUpTo(S, n) ==
  IF n = 0 THEN {<<>>}
  ELSE LET r == SeqsUpTo(S, n - 1)
       IN  r \cup {Append(s, c) : s \in {x \in r : Len(x) = n - 1}, c \in S}

Texts == SeqsUpTo(Chars, MaxLen)
PageTexts == {<<>>, <<"a">>, <<"b">>}     \* text extracted from one page

\* ------------------------------------------------------- Python values
\* Optional string: None, or a str (possibly empty).
PyNone == [some |-> FALSE, str |-> <<>>]
Str(s) == [some |-> TRUE, str |-> s]
\* Python truthiness of an optional string: None and "" are falsy.
Truthy(o) == o.some /\ o.str # <<>>

\* Result of a call that may raise.
Ok(v) == [ok |-> TRUE, val |-> v, msg |-> <<>>]
Raise(m) == [ok |-> FALSE, val |-> <<>>, msg |-> m]

\* ------------------------------------------------------- uploaded files
NoFile == [kind |-> "none"]
ImageFiles == {[kind |-> "image", decodable |-> d] : d \in BOOLEAN}
NoImage == [kind |-> "none"]                   \* image = None
Handle(f) == [kind |-> "handle", file |-> f]     \* a PIL image

\* What page.extract_text() does on one page: returns a str (possibly
\* empty), returns None, or raises.
Pages ==
  {[outcome |-> "text", text |-> t] : t \in PageTexts}
    \cup {[outcome |-> "none", text |-> <<>>],
          [outcome |-> "raise", text |-> <<"page error">>]}

\* An uploaded PDF: PdfReader either raises on it or yields its pages.
PdfFiles ==
  {[kind |-> "pdf", readable |-> FALSE, pages |-> <<>>]}
    \cup {[kind |-> "pdf", readable |-> TRUE, pages |-> p] :
            p \in SeqsUpTo(Pages, MaxPages)}

\* ------------------------------------------------------ the backend
\* model.generate_content(...) followed by response.text: the call returns
\* and .text yields a string, or the call raises, or .text raises.
BackendTexts == {<<"r">>}
BackendErrors == {<<"e">>}
Idle == [raises |-> "idle", payload |-> <<>>]
BackendOutcomes ==
  {[raises |-> "no", payload |-> t] : t \in BackendTexts}
    \cup {[raises |-> w, payload |-> m] :
            w \in {"generate_content", "text"}, m \in BackendErrors}

\* generation_config is never passed by the script: the library default.
DefaultConfig == [temperature |-> -1, max_output_tokens |-> -1]

\* ------------------------------------------------- constants of the page
CHEM_PROMPT == <<"CHEM_PROMPT">>
UserInputLabel == <<"\n\nUser Input: ">>
ReferenceLabel == <<"\n\nReference Document Content:\n">>
Heading == <<"AI Chemist's Solution">>
ErrorPrefix == <<"Error: ">>
InputTypes == {"Text", "Image", "PDF"}
Temps == {7, 10}                 \* slider 0.0 .. 1.0, in tenths
TokenLimits == {500, 2000}       \* number_input 100 .. 2000
DefaultTemp == 7
DefaultMaxTokens == 500

\* ------------------------------------------------------------ functions

\* get_gemini_response(input_text, pdf_content=None, image=None):
\* the list of backend calls made and the value returned / error raised.
Call(content, img) ==
  [content |-> content, image |-> img, generation_config |-> DefaultConfig]

\* Variant: the document text is put in front of the prompt.
get_gemini_response_doc_first(input_text, pdf, img, t, mt, out) ==
  LET call == IF img.kind # "none" THEN Call(input_text, img)
              ELSE IF Truthy(pdf)
                   THEN Call(pdf.str \o ReferenceLabel \o input_text, NoImage)
                   ELSE Call(input_text, NoImage)
  IN  [calls |-> <<call>>,
       res |-> IF out.raises = "no" THEN Ok(out.payload)
               ELSE Raise(out.payload)]

\* Variant: the settings are forwarded as generation_config.
get_gemini_response_with_config(input_text, pdf, img, t, mt, out) ==
  LET cfg == [temperature |-> t, max_output_tokens |-> mt]
      call == IF img.kind # "none"
              THEN [Call(input_text, img) EXCEPT !.generation_config = cfg]
              ELSE IF Truthy(pdf)
                   THEN [Call(input_text \o ReferenceLabel \o pdf.str, NoImage)
                           EXCEPT !.generation_config = cfg]
                   ELSE [Call(input_text, NoImage) EXCEPT !.generation_config = cfg]
  IN  [calls |-> <<call>>,
       res |-> IF out.raises = "no" THEN Ok(out.payload)
               ELSE Raise(out.payload)]

get_gemini_response(input_text, pdf, img, t, mt, out) ==
  LET call == IF img.kind # "none" THEN Call(input_text, img)
              ELSE IF Truthy(pdf)
                   THEN Call(input_text \o ReferenceLabel \o pdf.str, NoImage)
                   ELSE Call(input_text, NoImage)
  IN  [calls |-> <<call>>,
       res |-> IF out.raises = "no" THEN Ok(out.payload)
               ELSE Raise(out.payload)]

\* input_image_setup(uploaded_file)
input_image_setup(uploaded_file) ==
  IF uploaded_file.kind # "none"
  THEN IF uploaded_file.decodable THEN Ok(Handle(uploaded_file))
       ELSE Raise(<<"cannot identify image file">>)
  ELSE Raise(<<"No file uploaded">>)

\* page.extract_text(): the library call on one page.
extract_text(page) ==
  CASE page.outcome = "text" -> Ok(Str(page.text))
    [] page.outcome = "none" -> Ok(PyNone)
    [] OTHER -> Raise(page.text)

\* The loop of read_pdf_content: text += page.extract_text() or ""
RECURSIVE ExtractLoop(_, _)
ExtractLoop(pages, text) ==
  IF pages = <<>> THEN Ok(text)
  ELSE LET r == extract_text(Head(pages))
       IN  IF ~r.ok THEN Raise(r.msg)
           ELSE ExtractLoop(Tail(pages),
                            text \o (IF Truthy(r.val) THEN r.val.str ELSE <<>>))

\* read_pdf_content(uploaded_file)
read_pdf_content(uploaded_file) ==
  IF ~uploaded_file.readable THEN Raise(<<"cannot read PDF">>)
  ELSE ExtractLoop(uploaded_file.pages, <<>>)

\* Lines 121-136: the three globals are reset, then the branch of the
\* selected input type fills at most one of them.  An exception here is
\* outside every try block.
Collected(ui, pc, img, err) ==
  [user_input |-> ui, pdf_content |-> pc, image |-> img, uncaught |-> err]

\* Variant: the PDF upload is read whatever the input type.
CollectInput_any_pdf(it, ta, ui_file, pdf_file) ==
  LET doc == IF pdf_file.kind # "none" /\ pdf_file.readable
             THEN LET r == read_pdf_content(pdf_file)
                  IN  IF r.ok THEN r.val ELSE <<>>
             ELSE <<>>
  IN  CASE it = "Text" -> Collected(ta, doc, NoImage, PyNone)
        [] it = "Image" ->
             IF ui_file.kind # "none" /\ ui_file.decodable
             THEN Collected(<<>>, doc, Handle(ui_file), PyNone)
             ELSE Collected(<<>>, doc, NoImage, PyNone)
        [] OTHER -> Collected(<<>>, doc, NoImage, PyNone)

\* Variant: the text area value is read whatever the input type.
CollectInput_any_text(it, ta, ui_file, pdf_file) ==
  CASE it = "Text" -> Collected(ta, <<>>, NoImage, PyNone)
    [] it = "Image" ->
         IF ui_file.kind # "none"
         THEN LET r == input_image_setup(ui_file)
              IN  IF r.ok THEN Collected(ta, <<>>, r.val, PyNone)
                  ELSE Collected(ta, <<>>, NoImage, Str(r.msg))
         ELSE Collected(ta, <<>>, NoImage, PyNone)
    [] OTHER ->
         IF pdf_file.kind # "none"
         THEN LET r == read_pdf_content(pdf_file)
              IN  IF r.ok THEN Collected(ta, r.val, NoImage, PyNone)
                  ELSE Collected(ta, <<>>, NoImage, Str(r.msg))
         ELSE Collected(ta, <<>>, NoImage, PyNone)

CollectInput(it, ta, ui_file, pdf_file) ==
  CASE it = "Text" -> Collected(ta, <<>>, NoImage, PyNone)
    [] it = "Image" ->
         IF ui_file.kind # "none"
         THEN LET r == input_image_setup(ui_file)
              IN  IF r.ok THEN Collected(<<>>, <<>>, r.val, PyNone)
                  ELSE Collected(<<>>, <<>>, NoImage, Str(r.msg))
         ELSE Collected(<<>>, <<>>, NoImage, PyNone)
    [] OTHER ->
         IF pdf_file.kind # "none"
         THEN LET r == read_pdf_content(pdf_file)
              IN  IF r.ok THEN Collected(<<>>, r.val, NoImage, PyNone)
                  ELSE Collected(<<>>, <<>>, NoImage, Str(r.msg))
         ELSE Collected(<<>>, <<>>, NoImage, PyNone)

\* Lines 146-161: the body of `if st.button(...)`: what is sent and what
\* is rendered in the result area.
Element(k, t) == [kind |-> k, text |-> t]

\* The dispatch of lines 149-154.
Dispatch(it, full_prompt, pc, img, t, mt, out) ==
  IF it = "Image"
  THEN get_gemini_response(full_prompt, PyNone, img, t, mt, out)
  ELSE IF it = "PDF"
       THEN get_gemini_response(full_prompt, Str(pc), NoImage, t, mt, out)
       ELSE get_gemini_response(full_prompt, PyNone, NoImage, t, mt, out)

\* Variant: a failed call is tried once more.
GenerateSolution_retry(it, ui, pc, img, t, mt, out) ==
  LET g == Dispatch(it, CHEM_PROMPT \o UserInputLabel \o ui, pc, img, t, mt, out)
  IN  [calls |-> IF g.res.ok THEN g.calls ELSE g.calls \o g.calls,
       display |-> IF g.res.ok
                   THEN <<Element("heading", Heading),
                          Element("markdown", g.res.val)>>
                   ELSE <<Element("error", ErrorPrefix \o g.res.msg)>>]

\* Variant: the heading is rendered before the backend is called.
GenerateSolution_heading_first(it, ui, pc, img, t, mt, out) ==
  LET g == Dispatch(it, CHEM_PROMPT \o UserInputLabel \o ui, pc, img, t, mt, out)
  IN  [calls |-> g.calls,
       display |-> IF g.res.ok
                   THEN <<Element("heading", Heading),
                          Element("markdown", g.res.val)>>
                   ELSE <<Element("heading", Heading),
                          Element("error", ErrorPrefix \o g.res.msg)>>]

\* Variant: an empty user input is rejected before the backend is called.
GenerateSolution_reject_empty(it, ui, pc, img, t, mt, out) ==
  LET g == Dispatch(it, CHEM_PROMPT \o UserInputLabel \o ui, pc, img, t, mt, out)
  IN  IF it = "Text" /\ ui = <<>>
      THEN [calls |-> <<>>,
            display |-> <<Element("error", ErrorPrefix \o <<"empty input">>)>>]
      ELSE [calls |-> g.calls,
            display |-> IF g.res.ok
                        THEN <<Element("heading", Heading),
                               Element("markdown", g.res.val)>>
                        ELSE <<Element("error", ErrorPrefix \o g.res.msg)>>]

GenerateSolution(it, ui, pc, img, t, mt, out) ==
  LET full_prompt == CHEM_PROMPT \o UserInputLabel \o ui
      g == Dispatch(it, full_prompt, pc, img, t, mt, out)
  IN  [calls |-> g.calls,
       display |-> IF g.res.ok
                   THEN <<Element("heading", Heading),
                          Element("markdown", g.res.val)>>
                   ELSE <<Element("error", ErrorPrefix \o g.res.msg)>>]

\* One complete run of the script.
Run(it, ta, ui_file, pdf_file, t, mt, clicked, out) ==
  LET c == CollectInput(it, ta, ui_file, pdf_file)
  IN  IF c.uncaught.some
      THEN [user_input |-> c.user_input, pdf_content |-> c.pdf_content,
            image |-> c.image, uncaught |-> c.uncaught, calls |-> <<>>,
            display |-> <<Element("exception", c.uncaught.str)>>]
      ELSE IF clicked
           THEN LET h == GenerateSolution(it, c.user_input, c.pdf_content,
                                          c.image, t, mt, out)
                IN  [user_input |-> c.user_input,
                     pdf_content |-> c.pdf_content, image |-> c.image,
                     uncaught |-> PyNone, calls |-> h.calls,
                     display |-> h.display]
           ELSE [user_input |-> c.user_input, pdf_content |-> c.pdf_content,
                 image |-> c.image, uncaught |-> PyNone, calls |-> <<>>,
                 display |-> <<>>]

\* ---------------------------------------------------------------- state
VARIABLES
  input_type,      \* st.radio value
  text_area,       \* st.text_area value held by the session
  uploaded_image,  \* st.file_uploader (image) value held by the session
  uploaded_pdf,    \* st.file_uploader (pdf) value held by the session
  temp,            \* st.slider value
  max_tokens,      \* st.number_input value
  button,          \* what st.button returned in the last run
  backend,         \* how the backend answered in the last run (Idle: not asked)
  user_input,      \* script globals at the end of the last run
  pdf_content,
  image,
  calls,           \* model.generate_content calls made by the last run
  display,         \* what the last run rendered in the result area
  uncaught         \* exception that ended the last run, if any

widgets == <<input_type, text_area, uploaded_image, uploaded_pdf, temp, max_tokens>>
vars == <<input_type, text_area, uploaded_image, uploaded_pdf, temp, max_tokens,
          button, backend, user_input, pdf_content, image, calls, display,
          uncaught>>

\* The run triggered by an interaction that left the widgets at the primed
\* values.
Rerun(clicked, out) ==
  LET r == Run(input_type', text_area', uploaded_image', uploaded_pdf',
               temp', max_tokens', clicked, out)
  IN  /\ button' = clicked
      /\ backend' = (IF clicked /\ ~r.uncaught.some THEN out ELSE Idle)
      /\ user_input' = r.user_input
      /\ pdf_content' = r.pdf_content
      /\ image' = r.image
      /\ calls' = r.calls
      /\ display' = r.display
      /\ uncaught' = r.uncaught

Init ==
  /\ input_type = "Text"
  /\ text_area = <<>>
  /\ uploaded_image = NoFile
  /\ uploaded_pdf = NoFile
  /\ temp = DefaultTemp
  /\ max_tokens = DefaultMaxTokens
  /\ button = FALSE
  /\ backend = Idle
  /\ user_input = <<>>
  /\ pdf_content = <<>>
  /\ image = NoImage
  /\ calls = <<>>
  /\ display = <<>>
  /\ uncaught = PyNone

\* st.radio (line 119) is rendered before anything can raise.  A widget
\* that the new run does not render either keeps its session value or is
\* dropped by the framework; the script does not decide which.
SelectInputType ==
  \E it \in InputTypes, keep \in BOOLEAN :
    /\ it # input_type
    /\ input_type' = it
    /\ text_area' = IF keep \/ it = "Text" THEN text_area ELSE <<>>
    /\ uploaded_image' = IF keep \/ it = "Image" THEN uploaded_image ELSE NoFile
    /\ uploaded_pdf' = IF keep \/ it = "PDF" THEN uploaded_pdf ELSE NoFile
    /\ UNCHANGED <<temp, max_tokens>>
    /\ Rerun(FALSE, Idle)

\* st.text_area (line 126) exists only under Text.
TypeText ==
  \E s \in Texts :
    /\ input_type = "Text"
    /\ s # text_area
    /\ text_area' = s
    /\ UNCHANGED <<input_type, uploaded_image, uploaded_pdf, temp, max_tokens>>
    /\ Rerun(FALSE, Idle)

\* st.file_uploader (line 128) exists only under Image; it is rendered
\* before input_image_setup can raise.
UploadImage ==
  \E f \in ImageFiles \cup {NoFile} :
    /\ input_type = "Image"
    /\ f # uploaded_image
    /\ uploaded_image' = f
    /\ UNCHANGED <<input_type, text_area, uploaded_pdf, temp, max_tokens>>
    /\ Rerun(FALSE, Idle)

\* st.file_uploader (line 133) exists only under PDF.
UploadPdf ==
  \E f \in PdfFiles \cup {NoFile} :
    /\ input_type = "PDF"
    /\ f # uploaded_pdf
    /\ uploaded_pdf' = f
    /\ UNCHANGED <<input_type, text_area, uploaded_image, temp, max_tokens>>
    /\ Rerun(FALSE, Idle)

\* The settings widgets (lines 139-141) are rendered only by a run that
\* got past input collection.
SetTemperature ==
  \E t \in Temps :
    /\ ~uncaught.some
    /\ t # temp
    /\ temp' = t
    /\ UNCHANGED <<input_type, text_area, uploaded_image, uploaded_pdf, max_tokens>>
    /\ Rerun(FALSE, Idle)

SetMaxTokens ==
  \E k \in TokenLimits :
    /\ ~uncaught.some
    /\ k # max_tokens
    /\ max_tokens' = k
    /\ UNCHANGED <<input_type, text_area, uploaded_image, uploaded_pdf, temp>>
    /\ Rerun(FALSE, Idle)

\* The button (line 144) is rendered only by a run that got past input
\* collection; clicking it reruns the script with st.button(...) = True.
ClickGenerate ==
  \E out \in BackendOutcomes :
    /\ ~uncaught.some
    /\ UNCHANGED widgets
    /\ Rerun(TRUE, out)

Next ==
  \/ SelectInputType
  \/ TypeText
  \/ UploadImage
  \/ UploadPdf
  \/ SetTemperature
  \/ SetMaxTokens
  \/ ClickGenerate

Spec == Init /\ [][Next]_vars

TypeOK ==
  /\ input_type \in InputTypes
  /\ text_area \in Texts
  /\ uploaded_image \in ImageFiles \cup {NoFile}
  /\ uploaded_pdf \in PdfFiles \cup {NoFile}
  /\ temp \in Temps
  /\ max_tokens \in TokenLimits
  /\ button \in BOOLEAN
  /\ backend \in BackendOutcomes \cup {Idle}

\* ---------------------------------------------------------------- claims
IsError(d) == Len(d) = 1 /\ d[1].kind = "error"
IsResult(d, text) == d = <<Element("heading", Heading), Element("markdown", text)>>
BarePrompt == CHEM_PROMPT \o UserInputLabel \o user_input

\* C1: when generate is clicked under Image with no file uploaded, no
\* backend call is made and an error message is shown instead of a result.
C1_NoCallWithoutImage ==
  (button /\ input_type = "Image" /\ uploaded_image = NoFile)
    => (calls = <<>> /\ IsError(display))

\* C2: whenever a stage of the pipeline raises (PDF extraction, image
\* loading, the backend call), the error is caught by the handler and shown
\* as one error message, and the page stays interactive (the run is not
\* ended by the exception, so the button is rendered again).
StageFailed ==
  \/ CollectInput(input_type, text_area, uploaded_image, uploaded_pdf).uncaught.some
  \/ backend.raises \in {"generate_content", "text"}

C2_EveryErrorCaught ==
  StageFailed => (~uncaught.some /\ IsError(display))

\* C3: every click makes exactly one backend call, also when the backend
\* fails (no retry), and then the message shown carries the backend's
\* message verbatim; the client ends Succeeded or Failed.
C3_ExactlyOneCall ==
  button =>
    /\ Len(calls) = 1
    /\ backend.raises \in {"no", "generate_content", "text"}
    /\ backend.raises # "no" =>
         display = <<Element("error", ErrorPrefix \o backend.payload)>>
    /\ backend.raises = "no" => ~IsError(display)

C3_Witness ==
  button /\ backend.raises = "generate_content" /\ Len(calls) = 1 /\ IsError(display)

\* C4: at most one of image / document text is set and it matches the
\* input type; a call carries an image only under Image, a prompt with
\* merged document text only under PDF, and under Text the bare prompt.
C4_RequestMatchesModality ==
  /\ ~(image # NoImage /\ pdf_content # <<>>)
  /\ image # NoImage => input_type = "Image"
  /\ pdf_content # <<>> => input_type = "PDF"
  /\ \A i \in 1..Len(calls) :
       /\ calls[i].image # NoImage =>
            /\ input_type = "Image"
            /\ calls[i].image = image
            /\ calls[i].content = BarePrompt
       /\ calls[i].content # BarePrompt =>
            /\ input_type = "PDF"
            /\ pdf_content # <<>>
            /\ calls[i].image = NoImage
            /\ calls[i].content = BarePrompt \o ReferenceLabel \o pdf_content
       /\ input_type = "Text" => calls[i] = Call(BarePrompt, NoImage)

C4_Witness ==
  /\ button /\ input_type = "Image" /\ Len(calls) = 1
  /\ calls[1].image # NoImage
  /\ uploaded_pdf # NoFile /\ text_area # <<>>

\* C5: under PDF with extracted text E non-empty, what is sent is T, then
\* the user-input section with U, then the label, then E; with E empty it
\* is T followed by the user-input section only.
C5_DocumentPromptOrder ==
  (button /\ input_type = "PDF") =>
    /\ Len(calls) = 1
    /\ calls[1].content =
         (IF pdf_content # <<>>
          THEN CHEM_PROMPT \o UserInputLabel \o user_input
                 \o ReferenceLabel \o pdf_content
          ELSE CHEM_PROMPT \o UserInputLabel \o user_input)

C5_Witness ==
  button /\ input_type = "PDF" /\ pdf_content # <<>> /\ Len(calls) = 1

\* C6: for every readable PDF, extraction succeeds and yields the page-order
\* concatenation of the non-empty page texts; a page that yields nothing,
\* or whose extraction fails, contributes "" and does not abort.
RECURSIVE NonEmptyPageTexts(_)
NonEmptyPageTexts(pages) ==
  IF pages = <<>> THEN <<>>
  ELSE (IF Head(pages).outcome = "text" THEN Head(pages).text ELSE <<>>)
         \o NonEmptyPageTexts(Tail(pages))

C6_ExtractionNeverAborts ==
  (input_type = "PDF" /\ uploaded_pdf # NoFile /\ uploaded_pdf.readable)
    => (~uncaught.some /\ pdf_content = NonEmptyPageTexts(uploaded_pdf.pages))

\* C7: a click shows either the heading followed by the backend's text,
\* unmodified, or exactly one error message; a heading or result text is
\* on the page only after a backend call that returned.
C7_ResultOrError ==
  /\ button =>
       \/ backend.raises = "no" /\ IsResult(display, backend.payload)
       \/ backend.raises # "no" /\ IsError(display)
  /\ (\E i \in 1..Len(display) : display[i].kind \in {"heading", "markdown"})
       => (button /\ backend.raises = "no" /\ Len(calls) = 1)

C7_Witness ==
  button /\ backend.raises = "text" /\ Len(display) = 1

\* C8: under Text with empty user input the click does not fail in
\* assembly: one text-only call is made whose prompt is the template
\* followed by the empty user-input section.
C8_EmptyTextPrompt ==
  (button /\ input_type = "Text" /\ text_area = <<>>) =>
    /\ ~uncaught.some
    /\ calls = <<Call(CHEM_PROMPT \o UserInputLabel, NoImage)>>

C8_Witness ==
  button /\ input_type = "Text" /\ text_area = <<>> /\ Len(calls) = 1

\* C9: a run that differs from the last one only in the temperature and
\* max-token settings makes the same backend calls with the same arguments.
C9_SettingsNeverReachBackend ==
  \A t \in Temps, k \in TokenLimits :
    Run(input_type, text_area, uploaded_image, uploaded_pdf, t, k,
        button, backend).calls = calls

C9_Witness ==
  button /\ Len(calls) = 1 /\ temp # DefaultTemp /\ max_tokens # DefaultMaxTokens

\* C10: every run starts from empty user text, document text and image, so
\* what is sent depends only on the widget of the selected input type; under
\* Image and PDF the user-input section of the prompt is empty.
OtherInputsIrrelevant ==
  CASE input_type = "Text" ->
         \A f \in ImageFiles \cup {NoFile}, p \in PdfFiles \cup {NoFile} :
           Run(input_type, text_area, f, p, temp, max_tokens, button, backend).calls
             = calls
    [] input_type = "Image" ->
         \A s \in Texts, p \in PdfFiles \cup {NoFile} :
           Run(input_type, s, uploaded_image, p, temp, max_tokens, button, backend).calls
             = calls
    [] OTHER ->
         \A s \in Texts, f \in ImageFiles \cup {NoFile} :
           Run(input_type, s, f, uploaded_pdf, temp, max_tokens, button, backend).calls
             = calls

C10_NoInputSurvives ==
  /\ input_type # "Text" => user_input = <<>>
  /\ input_type # "PDF" => pdf_content = <<>>
  /\ input_type # "Image" => image = NoImage
  /\ OtherInputsIrrelevant
  /\ \A i \in 1..Len(calls) :
       /\ input_type = "Image" => calls[i].content = CHEM_PROMPT \o UserInputLabel
       /\ input_type = "PDF" =>
            calls[i].content \in
              {CHEM_PROMPT \o UserInputLabel,
               CHEM_PROMPT \o UserInputLabel \o ReferenceLabel \o pdf_content}

C10_Witness ==
  /\ button /\ input_type = "Image" /\ Len(calls) = 1
  /\ text_area # <<>> /\ uploaded_pdf # NoFile
====
